---- MODULE Spec2Model ----
(***************************************************************************)
(* Model of the catholic-church-finder schedule resolution engine          *)
(* (services/churchService.ts) and of the App component that drives it.    *)
(*                                                                         *)
(* A JavaScript string is modelled as a sequence of one-character strings, *)
(* so that the regular expressions and the substring searches of the code  *)
(* are computed character by character.                                    *)
(***************************************************************************)
EXTENDS Integers, Sequences, FiniteSets, TLC

VARIABLES
    \* ---- inputs and results of the pure functions of the service ----
    text,          \* a schedule text (item.time)
    currentDay,    \* weekday 0 = Sunday .. 6 = Saturday
    times,         \* result of parseTimes(text)
    conflict,      \* result of hasDayRestrictionConflict(text, currentDay)
    entries,       \* church.massSchedule.schedule
    currentMinutes,\* minutes since midnight of the clock reading
    nextMass,      \* result of calculateNextMassTime: {} (undefined) or {t}
    name,          \* a raw venue name
    norm,          \* the normalized key of name
    norm2,         \* the normalized key of norm
    fpc,           \* position of the function harness
    \* ---- the App component and its environment ----
    mounted,       \* the mount effect has run
    geolocation,   \* navigator.geolocation exists
    userLocation,  \* "null" or the position of the user
    mapCenter,     \* "null" or the center of the map
    churches,      \* the venue list of the App
    loading,       \* the loading flag
    error,         \* "null" or the error message
    searchResultName, \* "null" or the label of the geocoded place
    inflight,      \* the requests that have not completed
    ops,           \* number of requests the user has started
    batch,         \* the response findNearbyChurches is decorating
    clock,         \* the wall clock: [day, minutes]
    ticks,         \* minutes the clock has advanced
    handled,       \* the request completed last, and how it ended
    table,         \* the schedule table object (the imported hkMassSchedules)
    churchesCenter \* "null" or the center whose fetch produced the venue list

appVars == <<mounted, geolocation, userLocation, mapCenter, churches, loading,
             error, searchResultName, inflight, ops, batch, clock, ticks, handled,
             table, churchesCenter>>

fnVars == <<text, currentDay, times, conflict, entries, currentMinutes,
            nextMass, name, norm, norm2, fpc>>

vars == <<fnVars, appVars>>

(***************************************************************************)
(* Characters                                                              *)
(***************************************************************************)
DigitChars == <<"0", "1", "2", "3", "4", "5", "6", "7", "8", "9">>

UpperChars == <<"A", "B", "C", "D", "E", "F", "G", "H", "I", "J", "K", "L", "M",
                "N", "O", "P", "Q", "R", "S", "T", "U", "V", "W", "X", "Y", "Z">>

LowerChars == <<"a", "b", "c", "d", "e", "f", "g", "h", "i", "j", "k", "l", "m",
                "n", "o", "p", "q", "r", "s", "t", "u", "v", "w", "x", "y", "z">>

Range(s) == {s[i] : i \in 1..Len(s)}

Digits == Range(DigitChars)
WordChars == Range(DigitChars) \cup Range(UpperChars) \cup Range(LowerChars) \cup {"_"}
SpaceChars == {" ", "\t"}

\* \d
isDigit(c) == c \in Digits

\* \s (the white space characters of the modelled alphabet)
isSpace(c) == c \in SpaceChars

\* \w = [A-Za-z0-9_]
isWord(c) == c \in WordChars

DigitValues == [c \in Digits |-> (CHOOSE i \in 1..Len(DigitChars) : DigitChars[i] = c) - 1]

digitValue(c) == DigitValues[c]

LowerOf == [c \in Range(UpperChars) |->
               LowerChars[CHOOSE i \in 1..Len(UpperChars) : UpperChars[i] = c]]

lowerChar(c) == IF c \in DOMAIN LowerOf THEN LowerOf[c] ELSE c

\* String.prototype.toLowerCase
toLowerCase(s) == [i \in 1..Len(s) |-> lowerChar(s[i])]

\* s has the literal lit at (1-based) position i
matchesAt(s, i, lit) ==
    /\ i >= 1
    /\ i + Len(lit) - 1 <= Len(s)
    /\ \A k \in 1..Len(lit) : s[i + k - 1] = lit[k]

\* as matchesAt, ignoring letter case (the i flag)
matchesAtIgnoreCase(s, i, lit) == matchesAt(toLowerCase(s), i, toLowerCase(lit))

\* String.prototype.includes
includes(s, lit) == \E i \in 1..(Len(s) + 1) : matchesAt(s, i, lit)

\* parseInt of a run of decimal digits
RECURSIVE parseInt(_)
parseInt(ds) ==
    IF Len(ds) = 0 THEN 0
    ELSE parseInt(SubSeq(ds, 1, Len(ds) - 1)) * 10 + digitValue(ds[Len(ds)])

(***************************************************************************)
(* parseTimes                                                              *)
(***************************************************************************)
\* the alternatives of the third group of timeRegex, in the order written
Periods == << <<"a", "m">>, <<"p", "m">>, <<"n", "o", "o", "n">>,
              <<"a", ".", "m", ".">>, <<"p", ".", "m", ".">> >>

\* end of the run of white space that starts at position i (\s*, greedy)
RECURSIVE skipSpaces(_, _)
skipSpaces(s, i) ==
    IF i <= Len(s) /\ isSpace(s[i]) THEN skipSpaces(s, i + 1) ELSE i

\* One match of timeRegex starting at the digit at position i:
\* (\d{1,2})(?::(\d{2}))?\s*(am|pm|noon|a\.m\.|p\.m\.)?  with flag i.
\* Every part after the first digit is optional and greedy, and what follows
\* a part can always match, so the match never backtracks.
timeMatchAt(s, i) ==
    LET hEnd   == IF i + 1 <= Len(s) /\ isDigit(s[i + 1]) THEN i + 1 ELSE i
        hasMin == /\ hEnd + 3 <= Len(s)
                  /\ s[hEnd + 1] = ":"
                  /\ isDigit(s[hEnd + 2])
                  /\ isDigit(s[hEnd + 3])
        mEnd   == IF hasMin THEN hEnd + 3 ELSE hEnd
        pStart == skipSpaces(s, mEnd + 1)
        alts   == {k \in 1..Len(Periods) : matchesAtIgnoreCase(s, pStart, Periods[k])}
        pLen   == IF alts = {} THEN 0
                  ELSE Len(Periods[CHOOSE k \in alts : \A j \in alts : k <= j])
    IN  [g1   |-> SubSeq(s, i, hEnd),
         g2   |-> IF hasMin THEN SubSeq(s, hEnd + 2, hEnd + 3) ELSE <<>>,
         g3   |-> SubSeq(s, pStart, pStart + pLen - 1),
         last |-> pStart + pLen - 1]

\* [...text.matchAll(timeRegex)] from position i on (flag g)
RECURSIVE matchAll(_, _)
matchAll(s, i) ==
    IF i > Len(s) THEN <<>>
    ELSE IF ~isDigit(s[i]) THEN matchAll(s, i + 1)
    ELSE LET m == timeMatchAt(s, i)
         IN  <<m>> \o matchAll(s, m.last + 1)

\* m[3].toLowerCase().replace(/\./g, '')
RECURSIVE removeDots(_)
removeDots(s) ==
    IF Len(s) = 0 THEN <<>>
    ELSE IF Head(s) = "." THEN removeDots(Tail(s))
    ELSE <<Head(s)>> \o removeDots(Tail(s))

\* missingPeriodHours without its lower bound: 0 is taken for an afternoon hour
missingPeriodHoursNoLowerBound(hours) ==
    IF hours <= 6 THEN hours + 12 ELSE hours

\* the PM guess for a time written without am/pm
missingPeriodHours(hours) ==
    IF hours >= 1 /\ hours <= 6 THEN hours + 12 ELSE hours

\* periodHours adding 12 to every pm hour, 12 included
periodHoursPmAlways(period, hours) ==
    LET h1 == IF period = <<"p", "m">> THEN hours + 12 ELSE hours
        h2 == IF period = <<"a", "m">> /\ h1 = 12 THEN 0 ELSE h1
    IN  IF period = <<"n", "o", "o", "n">> THEN 12 ELSE h2

\* the hour of a time written with am, pm or noon
periodHours(period, hours) ==
    LET h1 == IF period = <<"p", "m">> /\ hours < 12 THEN hours + 12 ELSE hours
        h2 == IF period = <<"a", "m">> /\ h1 = 12 THEN 0 ELSE h1
    IN  IF period = <<"n", "o", "o", "n">> THEN 12 ELSE h2

\* the callback of matches.map
timeOfMatch(m) ==
    LET hours0  == parseInt(m.g1)
        minutes == IF Len(m.g2) > 0 THEN parseInt(m.g2) ELSE 0
        period  == removeDots(toLowerCase(m.g3))
        hours   == IF Len(period) > 0 THEN periodHours(period, hours0)
                   ELSE missingPeriodHours(hours0)
    IN  hours * 60 + minutes

parseTimes(s) ==
    LET matches == matchAll(s, 1)
    IN  [k \in 1..Len(matches) |-> timeOfMatch(matches[k])]

(***************************************************************************)
(* hasDayRestrictionConflict                                               *)
(***************************************************************************)
\* Object.keys(dayMap) in insertion order, with the weekdays of each key
dayMap == << [key |-> <<"M", "o", "n">>,      days |-> <<1>>],
             [key |-> <<"T", "u", "e">>,      days |-> <<2>>],
             [key |-> <<"W", "e", "d">>,      days |-> <<3>>],
             [key |-> <<"T", "h", "u">>,      days |-> <<4>>],
             [key |-> <<"T", "h", "u", "r">>, days |-> <<4>>],
             [key |-> <<"F", "r", "i">>,      days |-> <<5>>],
             [key |-> <<"S", "a", "t">>,      days |-> <<6>>],
             [key |-> <<"S", "u", "n">>,      days |-> <<0>>] >>

\* text.search(/\d/): 0-based index of the first digit, -1 when there is none
RECURSIVE searchDigit(_, _)
searchDigit(s, i) ==
    IF i > Len(s) THEN -1
    ELSE IF isDigit(s[i]) THEN i - 1
    ELSE searchDigit(s, i + 1)

\* String.prototype.trim
RECURSIVE trimStart(_)
trimStart(s) ==
    IF Len(s) > 0 /\ isSpace(Head(s)) THEN trimStart(Tail(s)) ELSE s

RECURSIVE trimEnd(_)
trimEnd(s) ==
    IF Len(s) > 0 /\ isSpace(s[Len(s)]) THEN trimEnd(SubSeq(s, 1, Len(s) - 1)) ELSE s

trim(s) == trimEnd(trimStart(s))

\* the forEach over Object.keys(dayMap): the weekdays pushed to daysFound
RECURSIVE daysFoundFrom(_, _)
daysFoundFrom(prefix, k) ==
    IF k > Len(dayMap) THEN <<>>
    ELSE (IF includes(prefix, toLowerCase(dayMap[k].key)) THEN dayMap[k].days ELSE <<>>)
         \o daysFoundFrom(prefix, k + 1)

\* the range shortcut taken when the prefix has " to " or "-"
\* rangeCovers without the Monday-to-Saturday range
rangeCoversMonFriOnly(prefix, day) ==
    /\ includes(prefix, <<" ", "t", "o", " ">>) \/ includes(prefix, <<"-">>)
    /\ includes(prefix, <<"m", "o", "n">>)
    /\ includes(prefix, <<"f", "r", "i">>)
    /\ day >= 1 /\ day <= 5

rangeCovers(prefix, day) ==
    /\ includes(prefix, <<" ", "t", "o", " ">>) \/ includes(prefix, <<"-">>)
    /\ \/ /\ includes(prefix, <<"m", "o", "n">>)
          /\ includes(prefix, <<"f", "r", "i">>)
          /\ day >= 1 /\ day <= 5
       \/ /\ includes(prefix, <<"m", "o", "n">>)
          /\ includes(prefix, <<"s", "a", "t">>)
          /\ day >= 1 /\ day <= 6

\* hasDayRestrictionConflict without the final daysFound.includes(currentDay)
hasDayRestrictionConflictNoExplicitList(s, day) ==
    LET firstDigitIdx == searchDigit(s, 1)
        prefix        == toLowerCase(SubSeq(s, 1, firstDigitIdx))
        daysFound     == daysFoundFrom(prefix, 1)
    IN  IF firstDigitIdx = -1 THEN FALSE
        ELSE IF Len(trim(prefix)) < 3 THEN FALSE
        ELSE IF Len(daysFound) = 0 THEN FALSE
        ELSE IF rangeCovers(prefix, day) THEN FALSE
        ELSE TRUE

hasDayRestrictionConflict(s, day) ==
    LET firstDigitIdx == searchDigit(s, 1)
        prefix        == toLowerCase(SubSeq(s, 1, firstDigitIdx))
        daysFound     == daysFoundFrom(prefix, 1)
        hasDayKeywords == Len(daysFound) > 0
    IN  IF firstDigitIdx = -1 THEN FALSE
        ELSE IF Len(trim(prefix)) < 3 THEN FALSE
        ELSE IF ~hasDayKeywords THEN FALSE
        ELSE IF rangeCovers(prefix, day) THEN FALSE
        ELSE IF day \in Range(daysFound) THEN FALSE
        ELSE TRUE

(***************************************************************************)
(* calculateNextMassTime                                                   *)
(***************************************************************************)
SundayMasses      == "Sunday Masses"
WeekdayMasses     == "Weekday Masses"
AnticipatedMasses == "Anticipated Sunday Masses"

\* categories without the anticipated masses of Saturday
categoriesNoAnticipated(day) ==
    IF day = 0 THEN {SundayMasses} ELSE {WeekdayMasses}

\* the categories array for a weekday
categories(day) ==
    IF day = 0 THEN {SundayMasses}
    ELSE IF day = 6 THEN {WeekdayMasses, AnticipatedMasses}
    ELSE {WeekdayMasses}

\* the option type of nextMassTime: {} is undefined, {t} is the number t
undefined == {}

\* foldTimes with t > currentMinutes: a mass starting this minute is dropped
RECURSIVE foldTimesStrict(_, _, _)
foldTimesStrict(ts, now, acc) ==
    IF Len(ts) = 0 THEN acc
    ELSE LET t == Head(ts)
             better == t > now /\ (acc = {} \/ \A a \in acc : t < a)
         IN  foldTimesStrict(Tail(ts), now, IF better THEN {t} ELSE acc)

\* times.forEach: nextMass after the times ts, starting from acc ({} = Infinity)
RECURSIVE foldTimes(_, _, _)
foldTimes(ts, now, acc) ==
    IF Len(ts) = 0 THEN acc
    ELSE LET t == Head(ts)
             better == t >= now /\ (acc = {} \/ \A a \in acc : t < a)
         IN  foldTimes(Tail(ts), now, IF better THEN {t} ELSE acc)

\* schedule.forEach: nextMass after the entries es
RECURSIVE foldEntries(_, _, _, _)
foldEntries(es, day, now, acc) ==
    IF Len(es) = 0 THEN acc
    ELSE LET item == Head(es)
             acc2 == IF item.type \notin categories(day) THEN acc
                     ELSE IF hasDayRestrictionConflict(item.time, day) THEN acc
                     ELSE foldTimes(parseTimes(item.time), now, acc)
         IN  foldEntries(Tail(es), day, now, acc2)

\* The value of church.massSchedule is what hkMassSchedules[norm] gives:
\*   kind "schedule"  - an entry of the table,
\*   kind "undefined" - no such property,
\*   kind "inherited" - a property every object inherits from
\*                      Object.prototype (truthy, without a schedule array).
noSchedule == [kind |-> "undefined", originalName |-> <<>>, schedule |-> <<>>]
inheritedProperty == [kind |-> "inherited", originalName |-> <<>>, schedule |-> <<>>]

\* church.massSchedule.schedule.forEach raises a TypeError when the value is
\* truthy and has no schedule array
calculateNextMassTimeThrows(church) ==
    church.massSchedule.kind = "inherited"

\* calculateNextMassTime(church) with the clock reading (day, now) that
\* new Date() gives; the result is {} (undefined) or {t}
calculateNextMassTime(church, day, now) ==
    IF church.massSchedule.kind = "undefined" THEN undefined
    ELSE foldEntries(church.massSchedule.schedule, day, now, {})

(***************************************************************************)
(* getMassSchedule: the key of a name                                      *)
(***************************************************************************)
\* \b at the boundary before position i
wordBoundary(s, i) ==
    LET before == i - 1 >= 1 /\ i - 1 <= Len(s) /\ isWord(s[i - 1])
        after  == i >= 1 /\ i <= Len(s) /\ isWord(s[i])
    IN  before # after

\* s.replace(/\b(w1|w2|...)\b/g, repl) from position i on
RECURSIVE replaceWords(_, _, _, _)
replaceWords(s, i, words, repl) ==
    IF i > Len(s) THEN <<>>
    ELSE LET alts == {k \in 1..Len(words) :
                        /\ wordBoundary(s, i)
                        /\ matchesAt(s, i, words[k])
                        /\ wordBoundary(s, i + Len(words[k]))}
         IN  IF alts = {} THEN <<s[i]>> \o replaceWords(s, i + 1, words, repl)
             ELSE LET k == CHOOSE a \in alts : \A b \in alts : a <= b
                  IN  repl \o replaceWords(s, i + Len(words[k]), words, repl)

\* s.replace(/[^\w\s]/g, '')
RECURSIVE removePunctuation(_)
removePunctuation(s) ==
    IF Len(s) = 0 THEN <<>>
    ELSE IF isWord(Head(s)) \/ isSpace(Head(s))
         THEN <<Head(s)>> \o removePunctuation(Tail(s))
         ELSE removePunctuation(Tail(s))

\* s.replace(/\s+/g, ' ') from position i on
RECURSIVE collapseSpaces(_, _)
collapseSpaces(s, i) ==
    IF i > Len(s) THEN <<>>
    ELSE IF isSpace(s[i]) THEN <<" ">> \o collapseSpaces(s, skipSpaces(s, i))
    ELSE <<s[i]>> \o collapseSpaces(s, i + 1)

SaintWord == << <<"s", "a", "i", "n", "t">> >>

CommonWords == << <<"c", "h", "u", "r", "c", "h">>,
                  <<"p", "a", "r", "i", "s", "h">>,
                  <<"c", "h", "a", "p", "e", "l">>,
                  <<"m", "a", "s", "s", " ", "c", "e", "n", "t", "r", "e">>,
                  <<"c", "e", "n", "t", "e", "r">>,
                  <<"c", "a", "t", "h", "o", "l", "i", "c">> >>

\* the key computed at the head of getMassSchedule
normalize(raw) ==
    LET n1 == toLowerCase(raw)
        n2 == replaceWords(n1, 1, SaintWord, <<"s", "t">>)
        n3 == removePunctuation(n2)
        n4 == replaceWords(n3, 1, CommonWords, <<>>)
    IN  trim(collapseSpaces(n4, 1))

\* the schedule table (data/hk_mass_schedules.json): key -> entry
hkMassSchedules ==
    (<<"s", "t", " ", "m", "a", "r", "y", "s">> :>
        [kind |-> "schedule",
         originalName |-> <<"S", "t", ".", " ", "M", "a", "r", "y", "'", "s", " ", "C", "h", "u", "r", "c", "h">>,
         schedule |-> << [type |-> SundayMasses, time |-> <<"1", "0", ":", "0", "0", ",", " ", "6", ":", "0", "0", "p", "m">>],
                         [type |-> WeekdayMasses, time |-> <<"M", "o", "n", " ", "t", "o", " ", "F", "r", "i", " ", "7", ":", "0", "0", "a", "m">>],
                         [type |-> AnticipatedMasses, time |-> <<"6", ":", "0", "0", "p", "m">>] >>])
    @@
    (<<"s", "t", " ", "j", "o", "s", "e", "p", "h", "s">> :>
        [kind |-> "schedule",
         originalName |-> <<"S", "t", ".", " ", "J", "o", "s", "e", "p", "h", "'", "s", " ", "C", "h", "u", "r", "c", "h">>,
         schedule |-> << [type |-> SundayMasses, time |-> <<"1", "2", ":", "0", "0", "a", "m", ",", " ", "9", ":", "3", "0">>] >>])

\* the lower-case property names every plain object inherits
inheritedKeys == {<<"c", "o", "n", "s", "t", "r", "u", "c", "t", "o", "r">>, <<"_", "_", "p", "r", "o", "t", "o", "_", "_">>}

\* hkMassSchedules[norm]
lookup(key) ==
    IF key \in DOMAIN table THEN table[key]
    ELSE IF key \in inheritedKeys THEN inheritedProperty
    ELSE noSchedule

getMassSchedule(raw) == lookup(normalize(raw))

(***************************************************************************)
(* Inputs of the pure functions                                            *)
(***************************************************************************)
MaxTokens == 3      \* most time tokens in a listed schedule text
MaxDayPieces == 3   \* most pieces in the prefix of a schedule text
MaxEntries == 2     \* most entries in a schedule
MaxWords == 3       \* most words in a venue name

\* s1 \o sep \o s2 \o ... : the texts of n pieces joined by a separator
RECURSIVE joined(_, _, _)
joined(pieces, seps, n) ==
    IF n = 0 THEN {<<>>}
    ELSE IF n = 1 THEN pieces
    ELSE {t \o sep \o u : t \in joined(pieces, seps, n - 1), sep \in seps, u \in pieces}

joinedUpTo(pieces, seps, n) == UNION {joined(pieces, seps, k) : k \in 0..n}

\* one time token: hour, optional minutes, optional gap, optional period
HourStrs == {
    <<"0">>, <<"1">>, <<"6">>, <<"7">>, <<"1", "2">>, <<"2", "4">> }
MinuteStrs == {<<>>, <<":", "0", "0">>, <<":", "3", "0">>}
GapStrs == {<<>>, <<" ">>}
PeriodStrs == {<<>>, <<"a", "m">>, <<"p", "m">>, <<"n", "o", "o", "n">>, <<"a", ".", "m", ".">>, <<"p", ".", "m", ".">>, <<"P", "M">>, <<"A", ".", "M", ".">>, <<"a", ".", "m">>}
TimeTokens == {h \o m \o g \o p : h \in HourStrs, m \in MinuteStrs, g \in GapStrs, p \in PeriodStrs}

\* the tokens of the listed texts, and what separates them
ListTokens == {
    <<"7", ":", "0", "0">>, <<"8">>, <<"6", ":", "0", "0", "p", "m">>, <<"1", "2", " ", "n", "o", "o", "n">>,
    <<"1", ":", "0", "0">>, <<"2", ":", "0", "0">>, <<"2", "5", ":", "3", "0">>, <<"p", ".", "m", ".">> }
ListSep == <<",", " ">>
ListSeps == {ListSep, <<>>}

TimeTexts == TimeTokens \cup joinedUpTo(ListTokens, ListSeps, MaxTokens)

\* the texts with a prefix before the first digit
DayPieces == {
    <<"M", "o", "n">>, <<"F", "r", "i">>, <<"S", "a", "t">>, <<"S", "u", "n">>, <<"W", "e", "d">>,
    <<"T", "h", "u", "r">>, <<" ", "t", "o", " ">>, <<"-">>, <<",", " ">>, <<".">> }
DaySuffixes == {<<>>, <<"7", ":", "0", "0", "a", "m">>}
DayTexts == {pre \o suf : pre \in joinedUpTo(DayPieces, {<<>>}, MaxDayPieces), suf \in DaySuffixes}

Days == 0..6

\* the schedules
EntryTypes == {SundayMasses, WeekdayMasses, AnticipatedMasses}
EntryTexts == {
    <<"8", ":", "0", "0", ",", " ", "1", "0", ":", "0", "0", ",", " ", "6", ":", "0", "0", "p", "m">>, <<"M", "o", "n", " ", "t", "o", " ", "F", "r", "i", " ", "7", ":", "0", "0", "a", "m">>,
    <<"S", "a", "t", " ", "6", ":", "0", "0", " ", "p", "m", ",", " ", "S", "u", "n", " ", "9", ":", "3", "0">>, <<"7", ":", "3", "0">> }
Entries == {[type |-> ty, time |-> tx] : ty \in EntryTypes, tx \in EntryTexts}

RECURSIVE seqsOfLen(_, _)
seqsOfLen(S, n) ==
    IF n = 0 THEN {<<>>}
    ELSE {<<x>> \o r : x \in S, r \in seqsOfLen(S, n - 1)}

Schedules == UNION {seqsOfLen(Entries, n) : n \in 0..MaxEntries}
ClockMinutes == {0, 450, 570, 600, 1080, 1380}

\* the venue names
NameWords == {
    <<"S", "a", "i", "n", "t">>, <<"S", "t", ".">>, <<"M", "a", "s", "s">>, <<"C", "e", "n", "t", "r", "e">>,
    <<"C", "h", "u", "r", "c", "h">>, <<"C", "a", "t", "h", "o", "l", "i", "c">>, <<"M", "a", "r", "y", "'", "s">>, <<"c", "o", "n", "s", "t", "r", "u", "c", "t", "o", "r">> }
NameSeps == {<<" ">>, <<"-">>}
Names == joinedUpTo(NameWords, NameSeps, MaxWords)

(***************************************************************************)
(* The pure functions applied to their inputs                              *)
(***************************************************************************)
\* the App before it is mounted
AppIdle ==
    /\ mounted = FALSE
    /\ geolocation = TRUE
    /\ userLocation = "null"
    /\ mapCenter = "null"
    /\ churches = <<>>
    /\ loading = TRUE
    /\ error = "null"
    /\ searchResultName = "null"
    /\ inflight = {}
    /\ ops = 0
    /\ batch = [status |-> "idle"]
    /\ clock = [day |-> 0, minutes |-> 0]
    /\ ticks = 0
    /\ handled = [id |-> 0, kind |-> "none", net |-> "none", reported |-> "none"]
    /\ table = hkMassSchedules
    /\ churchesCenter = "null"

NoResults ==
    /\ AppIdle
    /\ times = <<>>
    /\ conflict = FALSE
    /\ nextMass = {}
    /\ norm = <<>>
    /\ norm2 = <<>>
    /\ fpc = "input"

InitParse ==
    /\ text \in TimeTexts
    /\ currentDay = 0 /\ entries = <<>> /\ currentMinutes = 0 /\ name = <<>>
    /\ NoResults

CallParseTimes ==
    /\ fpc = "input"
    /\ times' = parseTimes(text)
    /\ fpc' = "done"
    /\ UNCHANGED <<text, currentDay, conflict, entries, currentMinutes, nextMass,
                   name, norm, norm2>>
    /\ UNCHANGED appVars

SpecParse == InitParse /\ [][CallParseTimes]_vars

InitDay ==
    /\ text \in DayTexts
    /\ currentDay \in Days
    /\ entries = <<>> /\ currentMinutes = 0 /\ name = <<>>
    /\ NoResults

CallHasDayRestrictionConflict ==
    /\ fpc = "input"
    /\ conflict' = hasDayRestrictionConflict(text, currentDay)
    /\ fpc' = "done"
    /\ UNCHANGED <<text, currentDay, times, entries, currentMinutes, nextMass,
                   name, norm, norm2>>
    /\ UNCHANGED appVars

SpecDay == InitDay /\ [][CallHasDayRestrictionConflict]_vars

InitNext ==
    /\ entries \in Schedules
    /\ currentDay \in Days
    /\ currentMinutes \in ClockMinutes
    /\ text = <<>> /\ name = <<>>
    /\ NoResults

CallCalculateNextMassTime ==
    /\ fpc = "input"
    /\ nextMass' = calculateNextMassTime(
                       [massSchedule |-> [kind |-> "schedule", originalName |-> <<>>,
                                          schedule |-> entries]],
                       currentDay, currentMinutes)
    /\ fpc' = "done"
    /\ UNCHANGED <<text, currentDay, times, conflict, entries, currentMinutes,
                   name, norm, norm2>>
    /\ UNCHANGED appVars

SpecNext == InitNext /\ [][CallCalculateNextMassTime]_vars

InitNorm ==
    /\ name \in Names
    /\ text = <<>> /\ currentDay = 0 /\ entries = <<>> /\ currentMinutes = 0
    /\ NoResults

CallNormalize ==
    /\ fpc = "input"
    /\ norm' = normalize(name)
    /\ fpc' = "once"
    /\ UNCHANGED <<text, currentDay, times, conflict, entries, currentMinutes,
                   nextMass, name, norm2>>
    /\ UNCHANGED appVars

CallNormalizeAgain ==
    /\ fpc = "once"
    /\ norm2' = normalize(norm)
    /\ fpc' = "done"
    /\ UNCHANGED <<text, currentDay, times, conflict, entries, currentMinutes,
                   nextMass, name, norm>>
    /\ UNCHANGED appVars

NextNorm == CallNormalize \/ CallNormalizeAgain

SpecNorm == InitNorm /\ [][NextNorm]_vars

(***************************************************************************)
(* Properties of calculateNextMassTime                                     *)
(***************************************************************************)
\* the categories the specification gives for a weekday
ClaimCategories(day) ==
    CASE day = 0 -> {"Sunday Masses"}
      [] day = 6 -> {"Weekday Masses", "Anticipated Sunday Masses"}
      [] OTHER   -> {"Weekday Masses"}

\* the entries that are not skipped today
Considered ==
    {k \in 1..Len(entries) :
        /\ entries[k].type \in ClaimCategories(currentDay)
        /\ ~hasDayRestrictionConflict(entries[k].time, currentDay)}

\* the times of the considered entries that have not passed
Qualifying ==
    {t \in UNION {Range(parseTimes(entries[k].time)) : k \in Considered} :
        t >= currentMinutes}

\* C1: calculateNextMassTime returns the least parsed time t >= nowMinutes of
\* the entries whose category applies today and whose text has no day
\* restriction conflict, and undefined exactly when there is no such time.
C1_NextIsMinimum ==
    fpc = "done" =>
        IF Qualifying = {} THEN nextMass = undefined
        ELSE nextMass = {CHOOSE t \in Qualifying : \A u \in Qualifying : t <= u}

\* a mass starting this very minute is the result while an entry of today's
\* category is skipped for its day restriction
C1_Witness ==
    /\ fpc = "done"
    /\ nextMass = {currentMinutes}
    /\ \E k \in 1..Len(entries) :
          /\ entries[k].type \in ClaimCategories(currentDay)
          /\ hasDayRestrictionConflict(entries[k].time, currentDay)
    /\ \E k \in Considered : \E t \in Range(parseTimes(entries[k].time)) :
          t < currentMinutes

\* C7: the categories considered depend on the weekday alone (Sunday: Sunday
\* Masses; Saturday: Weekday and Anticipated Sunday Masses; Monday to Friday:
\* Weekday Masses): a result always comes from an entry of today's categories,
\* and every unrestricted entry of today's categories with a time still to
\* come yields a result no later than that time.
C7_CategoriesByWeekday ==
    fpc = "done" =>
        /\ \A t \in nextMass :
              \E k \in 1..Len(entries) :
                  /\ entries[k].type \in ClaimCategories(currentDay)
                  /\ t \in Range(parseTimes(entries[k].time))
        /\ \A k \in Considered :
              \A t \in Range(parseTimes(entries[k].time)) :
                  t >= currentMinutes => \E r \in nextMass : r <= t

\* on a Saturday the result comes from an Anticipated Sunday Mass while a
\* Sunday Mass with an earlier time is left out
C7_Witness ==
    /\ fpc = "done"
    /\ currentDay = 6
    /\ currentMinutes = 570
    /\ \E k \in 1..Len(entries) :
          /\ entries[k].type = "Sunday Masses"
          /\ 570 \in Range(parseTimes(entries[k].time))
    /\ \E k \in 1..Len(entries) : entries[k].type = "Anticipated Sunday Masses"
    /\ \A k \in 1..Len(entries) : entries[k].type # "Weekday Masses"
    /\ nextMass = {600}

(***************************************************************************)
(* Properties of parseTimes                                                *)
(***************************************************************************)
\* C2: every value of parseTimes is an integer in [0, 1439].
C2_TimesInRange ==
    fpc = "done" => \A k \in 1..Len(times) : times[k] \in 0..1439

\* the tokens the regular expression finds in the text
Tokens == matchAll(text, 1)

\* C5: a matched token without am/pm/noon has the value (hour+12)*60+minute
\* when its hour is in [1,6] and hour*60+minute otherwise; "1:00, 2:00" gives
\* [780, 840]; the bare 7:00 and 8:00 of "7:00, 8:00, 6:00pm" give 420, 480.
C5_MissingPeriod ==
    fpc = "done" =>
        /\ Len(times) = Len(Tokens)
        /\ \A k \in 1..Len(Tokens) :
              LET hour   == parseInt(Tokens[k].g1)
                  minute == parseInt(Tokens[k].g2)
              IN  Len(Tokens[k].g3) = 0 =>
                      times[k] = IF hour \in 1..6 THEN (hour + 12) * 60 + minute
                                 ELSE hour * 60 + minute
        /\ text = <<"1", ":", "0", "0", ",", " ", "2", ":", "0", "0">> => times = <<780, 840>>
        /\ text = <<"7", ":", "0", "0", ",", " ", "8", ":", "0", "0", ",", " ", "6", ":", "0", "0", "p", "m">>
              => Len(times) = 3 /\ times[1] = 420 /\ times[2] = 480

\* a text with a bare afternoon hour and a bare morning hour has been parsed
C5_Witness ==
    /\ fpc = "done"
    /\ text = <<"1", ":", "0", "0", ",", " ", "2", "5", ":", "3", "0", ",", " ", "7", ":", "0", "0">>
    /\ times = <<780, 1530, 420>>

\* the period of a token as the specification names it
ClaimPeriod(g3) ==
    LET p == toLowerCase(g3)
    IN  IF p \in {<<"p", "m">>, <<"p", ".", "m", ".">>} THEN "pm"
        ELSE IF p \in {<<"a", "m">>, <<"a", ".", "m", ".">>} THEN "am"
        ELSE IF p = <<"n", "o", "o", "n">> THEN "noon"
        ELSE "none"

\* C6: a matched token with a period resolves as: pm and hour < 12 gives
\* hour+12, am and hour 12 gives 0, noon gives 12, otherwise the hour is
\* unchanged; its value is hour*60+minute with minute 0 when it has none; the
\* values come in the order the tokens appear in the text.
C6_Period ==
    fpc = "done" =>
        /\ Len(times) = Len(Tokens)
        /\ \A k \in 1..Len(Tokens) :
              LET hour   == parseInt(Tokens[k].g1)
                  minute == IF Tokens[k].g2 = <<>> THEN 0 ELSE parseInt(Tokens[k].g2)
                  period == ClaimPeriod(Tokens[k].g3)
                  hour2  == CASE period = "pm" /\ hour < 12 -> hour + 12
                              [] period = "am" /\ hour = 12 -> 0
                              [] period = "noon"             -> 12
                              [] OTHER                       -> hour
              IN  period # "none" => times[k] = hour2 * 60 + minute
        /\ \A a \in ListTokens, b \in ListTokens :
              text = a \o ListSep \o b => times = parseTimes(a) \o parseTimes(b)

\* a listed text whose later token is the earlier time of day has been parsed
C6_Witness ==
    /\ fpc = "done"
    /\ text = <<"6", ":", "0", "0", "p", "m", ",", " ", "1", "2", " ", "n", "o", "o", "n">>
    /\ times = <<1080, 720>>

(***************************************************************************)
(* Properties of hasDayRestrictionConflict                                 *)
(***************************************************************************)
\* the day-name tokens of a weekday
ClaimDayTokens(day) ==
    CASE day = 0 -> {<<"s", "u", "n">>}
      [] day = 1 -> {<<"m", "o", "n">>}
      [] day = 2 -> {<<"t", "u", "e">>}
      [] day = 3 -> {<<"w", "e", "d">>}
      [] day = 4 -> {<<"t", "h", "u">>, <<"t", "h", "u", "r">>}
      [] day = 5 -> {<<"f", "r", "i">>}
      [] day = 6 -> {<<"s", "a", "t">>}

DigitPositions == {i \in 1..Len(text) : isDigit(text[i])}

\* the lower-cased text before the first digit (the whole text without one)
ClaimPrefix ==
    LET n == IF DigitPositions = {} THEN Len(text)
             ELSE (CHOOSE i \in DigitPositions : \A j \in DigitPositions : i <= j) - 1
    IN  toLowerCase(SubSeq(text, 1, n))

\* the length of the prefix without its leading and trailing white space
ClaimTrimmedLength ==
    LET solid == {i \in 1..Len(ClaimPrefix) : ~isSpace(ClaimPrefix[i])}
    IN  IF solid = {} THEN 0
        ELSE (CHOOSE i \in solid : \A j \in solid : i >= j)
             - (CHOOSE i \in solid : \A j \in solid : i <= j) + 1

TokenInPrefix(day) == \E tok \in ClaimDayTokens(day) : includes(ClaimPrefix, tok)

\* C4: hasDayRestrictionConflict returns true only when the text has a digit,
\* the prefix before it has trimmed length >= 3 and holds a day-name token,
\* and today's token is not in the prefix; with today's token in the prefix
\* the result is false.
C4_ConflictOnlyWhenExcluded ==
    fpc = "done" =>
        /\ conflict =>
              /\ DigitPositions # {}
              /\ ClaimTrimmedLength >= 3
              /\ \E d \in Days : TokenInPrefix(d)
              /\ ~TokenInPrefix(currentDay)
        /\ TokenInPrefix(currentDay) => ~conflict

\* a conflict has been reported for a text that names other days, and
\* (in another state) none for a text that names today
C4_Witness ==
    /\ fpc = "done"
    /\ conflict
    /\ currentDay = 3
    /\ TokenInPrefix(1) /\ TokenInPrefix(5)

\* the prefix is phrased as a range: it holds " to " or "-"
ClaimRangePhrasing ==
    includes(ClaimPrefix, <<" ", "t", "o", " ">>) \/ includes(ClaimPrefix, <<"-">>)

ClaimMonToFri == ClaimRangePhrasing /\ TokenInPrefix(1) /\ TokenInPrefix(5)

ClaimMonToSat == ClaimRangePhrasing /\ TokenInPrefix(1) /\ TokenInPrefix(6)

ClaimCoveredByRange(day) ==
    \/ ClaimMonToFri /\ day \in 1..5
    \/ ClaimMonToSat /\ day \in 1..6

\* C13: with a range phrasing that names "mon" and "fri" the result is false
\* on days 1..5, with one that names "mon" and "sat" it is false on days
\* 1..6; on a day outside the covered range that the prefix does not name
\* the result is true.
C13_RangePhrasing ==
    fpc = "done" =>
        /\ ClaimCoveredByRange(currentDay) => ~conflict
        /\ /\ ClaimMonToFri \/ ClaimMonToSat
           /\ DigitPositions # {}
           /\ ~ClaimCoveredByRange(currentDay)
           /\ ~TokenInPrefix(currentDay)
           => conflict

\* a Monday-to-Saturday range has been found to cover a Tuesday that the
\* prefix does not name
C13_Witness ==
    /\ fpc = "done"
    /\ ClaimMonToSat /\ ~ClaimMonToFri
    /\ DigitPositions # {}
    /\ currentDay = 2
    /\ ~TokenInPrefix(2)
    /\ ~conflict

(***************************************************************************)
(* Properties of the key of a name                                         *)
(***************************************************************************)
\* C3: normalize(normalize(x)) = normalize(x) for every raw name x.
C3_Idempotent ==
    fpc = "done" => norm2 = norm

\* the word or phrase w stands alone somewhere in s
ClaimStandsAlone(s, w) ==
    \E i \in 1..Len(s) :
        /\ matchesAt(s, i, w)
        /\ i = 1 \/ ~isWord(s[i - 1])
        /\ i + Len(w) - 1 = Len(s) \/ ~isWord(s[i + Len(w)])

\* C11: the key of a name holds none of the stop-words "church", "parish",
\* "chapel", "mass centre", "center", "catholic" as a standalone word or
\* phrase, holds no punctuation character, and has no leading, trailing or
\* repeated white space.
C11_KeyIsClean ==
    fpc \in {"once", "done"} =>
        /\ \A k \in 1..Len(CommonWords) : ~ClaimStandsAlone(norm, CommonWords[k])
        /\ \A i \in 1..Len(norm) : isWord(norm[i]) \/ isSpace(norm[i])
        /\ Len(norm) > 0 => ~isSpace(norm[1]) /\ ~isSpace(norm[Len(norm)])
        /\ \A i \in 1..(Len(norm) - 1) : ~(isSpace(norm[i]) /\ isSpace(norm[i + 1]))

(***************************************************************************)
(* findNearbyChurches: the decoration of one response                      *)
(***************************************************************************)
MaxBatch == 2   \* most elements in one response
MaxOps == 2     \* most requests the user starts
MaxTicks == 1   \* most minutes the clock advances

\* the elements the venue source may return (distance: the haversine
\* distance of the element from the center of the query)
Elements ==
    { [id |-> 1, name |-> <<"S", "t", ".", " ", "M", "a", "r", "y", "'", "s", " ", "C", "h", "u", "r", "c", "h">>, distance |-> 2],
      [id |-> 2, name |-> <<"S", "a", "i", "n", "t", " ", "M", "a", "r", "y", "'", "s", " ", "P", "a", "r", "i", "s", "h">>, distance |-> 1],
      [id |-> 3, name |-> <<"C", "o", "n", "s", "t", "r", "u", "c", "t", "o", "r", " ", "C", "h", "a", "p", "e", "l">>, distance |-> 3],
      [id |-> 4, name |-> <<>>, distance |-> 4],
      [id |-> 5, name |-> <<"B", "a", "p", "t", "i", "s", "t", " ", "C", "h", "u", "r", "c", "h">>, distance |-> 5],
      [id |-> 6, name |-> <<"S", "t", ".", " ", "J", "o", "s", "e", "p", "h", "'", "s", " ", "C", "h", "u", "r", "c", "h">>, distance |-> 6] }

\* the responses: sequences of distinct elements
Responses ==
    {r \in UNION {seqsOfLen(Elements, n) : n \in 0..MaxBatch} :
        \A i \in 1..Len(r), j \in 1..Len(r) : i # j => r[i] # r[j]}

UnknownName == <<"U", "n", "k", "n", "o", "w", "n", " ", "C", "a", "t", "h", "o", "l", "i", "c", " ", "C", "h", "u", "r", "c", "h">>

\* element.tags.name || "Unknown Catholic Church"
nameOf(element) == IF element.name = <<>> THEN UnknownName ELSE element.name

\* the names findNearbyChurches maps to null
isExcludedName(n) ==
    \/ includes(n, <<"S", "w", "a", "t", "o", "w", " ", "C", "h", "r", "i", "s", "t", "i", "a", "n">>)
    \/ includes(n, <<"L", "u", "t", "h", "e", "r", "a", "n">>)
    \/ includes(n, <<"M", "e", "t", "h", "o", "d", "i", "s", "t">>)
    \/ includes(n, <<"B", "a", "p", "t", "i", "s", "t">>)

\* churchOf attaching a copy of the schedule cut down to its first entry
churchOfFirstEntryOnly(element) ==
    LET schedule == getMassSchedule(nameOf(element))
    IN  [id |-> element.id,
         name |-> nameOf(element),
         distance |-> element.distance,
         massSchedule |-> IF schedule.kind = "schedule"
                          THEN [schedule EXCEPT !.schedule = SubSeq(@, 1, 1)]
                          ELSE schedule,
         nextMassTime |-> undefined]

\* the church object built for an element, before nextMassTime is set
churchOf(element) ==
    [id |-> element.id,
     name |-> nameOf(element),
     distance |-> element.distance,
     massSchedule |-> getMassSchedule(nameOf(element)),
     nextMassTime |-> undefined]

\* the callback of data.map for an element that is kept, with the clock
\* reading clk that new Date() gives inside calculateNextMassTime
decorate(element, clk) ==
    [churchOf(element) EXCEPT
        !.nextMassTime = calculateNextMassTime(churchOf(element), clk.day, clk.minutes)]

\* .sort((a, b) => (a.distance || 0) - (b.distance || 0)), a stable sort
RECURSIVE insertByDistance(_, _)
insertByDistance(sorted, c) ==
    IF Len(sorted) = 0 THEN <<c>>
    ELSE IF sorted[Len(sorted)].distance <= c.distance THEN Append(sorted, c)
    ELSE Append(insertByDistance(SubSeq(sorted, 1, Len(sorted) - 1), c), sorted[Len(sorted)])

RECURSIVE sortByDistance(_)
sortByDistance(cs) ==
    IF Len(cs) = 0 THEN <<>>
    ELSE insertByDistance(sortByDistance(SubSeq(cs, 1, Len(cs) - 1)), cs[Len(cs)])

(***************************************************************************)
(* The App                                                                 *)
(***************************************************************************)
Here == "here"                      \* the position geolocation reports
Places == {"Central"}               \* the places the geocoder may return
Queries == {<<"C", "e", "n", "t", "r", "a", "l">>, <<" ", " ">>, <<>>}
Clocks == {[day |-> 0, minutes |-> 600], [day |-> 6, minutes |-> 1439]}

FailedToFetch == "Failed to fetch nearby churches. Please try again later."
NotSupported == "Geolocation is not supported by your browser."
UnableToLocate ==
    "Unable to retrieve your location. Please allow location access or search for a location manually."

idle == [status |-> "idle"]

FnIdle ==
    /\ text = <<>> /\ currentDay = 0 /\ times = <<>> /\ conflict = FALSE
    /\ entries = <<>> /\ currentMinutes = 0 /\ nextMass = {}
    /\ name = <<>> /\ norm = <<>> /\ norm2 = <<>> /\ fpc = "input"

Init ==
    /\ FnIdle
    /\ mounted = FALSE
    /\ geolocation \in BOOLEAN
    /\ userLocation = "null"
    /\ mapCenter = "null"
    /\ churches = <<>>
    /\ loading = TRUE
    /\ error = "null"
    /\ searchResultName = "null"
    /\ inflight = {}
    /\ ops = 0
    /\ batch = idle
    /\ clock \in Clocks
    /\ ticks = 0
    /\ handled = [id |-> 0, kind |-> "none", net |-> "none", reported |-> "none"]
    /\ table = hkMassSchedules
    /\ churchesCenter = "null"

\* the body of refreshLocation
refreshLocation ==
    IF ~geolocation
    THEN /\ error' = NotSupported
         /\ loading' = FALSE
         /\ UNCHANGED <<inflight, ops>>
    ELSE /\ ops < MaxOps
         /\ loading' = TRUE
         /\ inflight' = inflight \cup {[id |-> ops + 1, kind |-> "geolocation", center |-> "none"]}
         /\ ops' = ops + 1
         /\ UNCHANGED error

\* useEffect(() => { refreshLocation(); }, [])
Mount ==
    /\ ~mounted
    /\ mounted' = TRUE
    /\ refreshLocation
    /\ UNCHANGED <<geolocation, userLocation, mapCenter, churches, searchResultName,
                   batch, clock, ticks, handled, table, churchesCenter,
                   fnVars>>

\* the RecenterControl, rendered inside the map
ClickLocate ==
    /\ mounted /\ batch = idle
    /\ mapCenter # "null"
    /\ refreshLocation
    /\ UNCHANGED <<mounted, geolocation, userLocation, mapCenter, churches,
                   searchResultName, batch, clock, ticks, handled, table, churchesCenter,
                   fnVars>>

\* the success callback of getCurrentPosition, which calls fetchChurches
GeolocationSuccess ==
    /\ batch = idle
    /\ \E r \in inflight :
          /\ r.kind = "geolocation"
          /\ userLocation' = Here
          /\ mapCenter' = Here
          /\ searchResultName' = "null"
          /\ loading' = TRUE
          /\ inflight' = (inflight \ {r})
                            \cup {[id |-> r.id, kind |-> "fetch", center |-> Here]}
          /\ handled' = [id |-> r.id, kind |-> "geolocation", net |-> "ok",
                         reported |-> "value"]
    /\ UNCHANGED <<mounted, geolocation, churches, error, ops, batch, clock, ticks,
                   table, churchesCenter,
                   fnVars>>

\* the error callback of getCurrentPosition
GeolocationError ==
    /\ batch = idle
    /\ \E r \in inflight :
          /\ r.kind = "geolocation"
          /\ error' = UnableToLocate
          /\ loading' = FALSE
          /\ inflight' = inflight \ {r}
          /\ handled' = [id |-> r.id, kind |-> "geolocation", net |-> "denied",
                         reported |-> "error"]
    /\ UNCHANGED <<mounted, geolocation, userLocation, mapCenter, churches,
                   searchResultName, ops, batch, clock, ticks, table, churchesCenter,
                   fnVars>>

\* handleSearch up to its await
HandleSearch ==
    /\ mounted /\ batch = idle
    /\ \E query \in Queries :
          IF Len(trim(query)) = 0
          THEN UNCHANGED <<loading, inflight, ops>>
          ELSE /\ ops < MaxOps
               /\ loading' = TRUE
               /\ inflight' = inflight \cup {[id |-> ops + 1, kind |-> "geocode", center |-> "none"]}
               /\ ops' = ops + 1
    /\ UNCHANGED <<mounted, geolocation, userLocation, mapCenter, churches, error,
                   searchResultName, batch, clock, ticks, handled, table, churchesCenter,
                   fnVars>>

\* geocodeLocation returns a place, and handleSearch goes on to fetchChurches
GeocodeFound ==
    /\ batch = idle
    /\ \E r \in inflight, place \in Places :
          /\ r.kind = "geocode"
          /\ mapCenter' = place
          /\ searchResultName' = place
          /\ loading' = TRUE
          /\ inflight' = (inflight \ {r})
                            \cup {[id |-> r.id, kind |-> "fetch", center |-> place]}
          /\ handled' = [id |-> r.id, kind |-> "geocode", net |-> "ok",
                         reported |-> "value"]
    /\ UNCHANGED <<mounted, geolocation, userLocation, churches, error, ops, batch,
                   clock, ticks, table, churchesCenter,
                   fnVars>>

\* geocodeLocation returns null, for an empty answer and (from its catch) for
\* a failed request alike; handleSearch alerts "Location not found"
GeocodeNull ==
    /\ batch = idle
    /\ \E r \in inflight, net \in {"empty", "error"} :
          /\ r.kind = "geocode"
          /\ loading' = FALSE
          /\ inflight' = inflight \ {r}
          /\ handled' = [id |-> r.id, kind |-> "geocode", net |-> net,
                         reported |-> "null"]
    /\ UNCHANGED <<mounted, geolocation, userLocation, mapCenter, churches, error,
                   searchResultName, ops, batch, clock, ticks, table, churchesCenter,
                   fnVars>>

\* axios.post fails: findNearbyChurches rethrows, fetchChurches sets the error
FetchFails ==
    /\ batch = idle
    /\ \E r \in inflight :
          /\ r.kind = "fetch"
          /\ error' = FailedToFetch
          /\ loading' = FALSE
          /\ inflight' = inflight \ {r}
          /\ handled' = [id |-> r.id, kind |-> "fetch", net |-> "error",
                         reported |-> "throw"]
    /\ UNCHANGED <<mounted, geolocation, userLocation, mapCenter, churches,
                   searchResultName, ops, batch, clock, ticks, table, churchesCenter,
                   fnVars>>

\* axios.post answers: findNearbyChurches starts to map the elements
FetchResponds ==
    /\ batch = idle
    /\ \E r \in inflight, data \in Responses :
          /\ r.kind = "fetch"
          /\ batch' = [status |-> "mapping", id |-> r.id, center |-> r.center,
                       data |-> data, out |-> <<>>]
          /\ inflight' = inflight \ {r}
    /\ UNCHANGED <<mounted, geolocation, userLocation, mapCenter, churches, loading,
                   error, searchResultName, ops, clock, ticks, handled, table, churchesCenter,
                   fnVars>>

\* one call of the callback of data.map; a TypeError raised in it leaves the
\* map, is rethrown by the catch of findNearbyChurches and handled by the
\* catch and finally of fetchChurches
DecorateElement ==
    /\ batch # idle
    /\ Len(batch.out) < Len(batch.data)
    /\ LET element == batch.data[Len(batch.out) + 1]
       IN  IF isExcludedName(nameOf(element))
           THEN /\ batch' = [batch EXCEPT !.out = Append(@, [null |-> TRUE])]
                /\ UNCHANGED <<error, loading, handled>>
           ELSE IF calculateNextMassTimeThrows(churchOf(element))
           THEN /\ batch' = idle
                /\ error' = FailedToFetch
                /\ loading' = FALSE
                /\ handled' = [id |-> batch.id, kind |-> "fetch", net |-> "ok",
                               reported |-> "throw"]
           ELSE /\ batch' = [batch EXCEPT !.out = Append(@, decorate(element, clock))]
                /\ UNCHANGED <<error, loading, handled>>
    /\ UNCHANGED <<mounted, geolocation, userLocation, mapCenter, churches,
                   searchResultName, inflight, ops, clock, ticks, table, churchesCenter,
                   fnVars>>

\* .filter((c) => c !== null)
RECURSIVE withoutNulls(_)
withoutNulls(cs) ==
    IF Len(cs) = 0 THEN <<>>
    ELSE IF "null" \in DOMAIN Head(cs) THEN withoutNulls(Tail(cs))
    ELSE <<Head(cs)>> \o withoutNulls(Tail(cs))

\* the map is over: filter, sort, return; fetchChurches stores the result
FetchReturns ==
    /\ batch # idle
    /\ Len(batch.out) = Len(batch.data)
    /\ churches' = sortByDistance(withoutNulls(batch.out))
    /\ churchesCenter' = batch.center
    /\ error' = "null"
    /\ loading' = FALSE
    /\ handled' = [id |-> batch.id, kind |-> "fetch", net |-> "ok", reported |-> "value"]
    /\ batch' = idle
    /\ UNCHANGED <<mounted, geolocation, userLocation, mapCenter, searchResultName,
                   inflight, ops, clock, ticks, table,
                   fnVars>>

\* the wall clock reaches the next minute
ClockTick ==
    /\ ticks < MaxTicks
    /\ ticks' = ticks + 1
    /\ clock' = IF clock.minutes = 1439
                THEN [day |-> (clock.day + 1) % 7, minutes |-> 0]
                ELSE [clock EXCEPT !.minutes = @ + 1]
    /\ UNCHANGED <<mounted, geolocation, userLocation, mapCenter, churches, loading,
                   error, searchResultName, inflight, ops, batch, handled, table, churchesCenter,
                   fnVars>>

Next ==
    \/ Mount
    \/ ClickLocate
    \/ GeolocationSuccess
    \/ GeolocationError
    \/ HandleSearch
    \/ GeocodeFound
    \/ GeocodeNull
    \/ FetchFails
    \/ FetchResponds
    \/ DecorateElement
    \/ FetchReturns
    \/ ClockTick

Spec == Init /\ [][Next]_vars

(***************************************************************************)
(* The render of the venue list                                            *)
(***************************************************************************)
SortOptions == {"distance", "time"}

\* the comparator of sortedChurches is positive: a is placed after b
comesAfter(a, b, sortOption) ==
    IF sortOption = "time"
    THEN IF a.nextMassTime = b.nextMassTime THEN a.distance > b.distance
         ELSE IF a.nextMassTime = undefined THEN TRUE
         ELSE IF b.nextMassTime = undefined THEN FALSE
         ELSE (CHOOSE t \in a.nextMassTime : TRUE) > (CHOOSE t \in b.nextMassTime : TRUE)
    ELSE a.distance > b.distance

RECURSIVE insertSorted(_, _, _)
insertSorted(sorted, c, sortOption) ==
    IF Len(sorted) = 0 THEN <<c>>
    ELSE IF ~comesAfter(sorted[Len(sorted)], c, sortOption) THEN Append(sorted, c)
    ELSE Append(insertSorted(SubSeq(sorted, 1, Len(sorted) - 1), c, sortOption),
                sorted[Len(sorted)])

\* [...churches].sort(...): a sorted copy, the list itself is left alone
RECURSIVE sortedChurches(_, _)
sortedChurches(cs, sortOption) ==
    IF Len(cs) = 0 THEN <<>>
    ELSE insertSorted(sortedChurches(SubSeq(cs, 1, Len(cs) - 1), sortOption),
                      cs[Len(cs)], sortOption)

\* Number.prototype.toString of a natural number
RECURSIVE toString(_)
toString(n) ==
    IF n < 10 THEN <<DigitChars[n + 1]>>
    ELSE toString(n \div 10) \o <<DigitChars[(n % 10) + 1]>>

\* padStart(2, '0')
padStart(str) == IF Len(str) < 2 THEN <<"0">> \o str ELSE str

formatMinutes(minutes) ==
    LET h    == minutes \div 60
        m    == minutes % 60
        ampm == IF h >= 12 THEN <<"P", "M">> ELSE <<"A", "M">>
        h12  == IF h % 12 = 0 THEN 12 ELSE h % 12
    IN  toString(h12) \o <<":">> \o padStart(toString(m)) \o <<" ">> \o ampm

\* the value of an option as a JavaScript condition: undefined and 0 are falsy
truthy(nextMassTime) == nextMassTime # undefined /\ nextMassTime # {0}

NextMassLabel == <<"N", "e", "x", "t", " ", "M", "a", "s", "s", ":", " ">>
NextMassTodayLabel == <<"N", "e", "x", "t", " ", "M", "a", "s", "s", " ", "T", "o", "d", "a", "y", ":", " ">>
ScheduleAvailable == <<"M", "a", "s", "s", " ", "S", "c", "h", "e", "d", "u", "l", "e", " ", "A", "v", "a", "i", "l", "a", "b", "l", "e">>

\* the line under the distance in the list item of a church
listItemLine(church) ==
    IF truthy(church.nextMassTime)
    THEN NextMassLabel \o formatMinutes(CHOOSE t \in church.nextMassTime : TRUE)
    ELSE IF church.massSchedule.kind # "undefined" THEN ScheduleAvailable
    ELSE <<>>

\* what {church.nextMassTime && (...)} puts into the popup: the line, the
\* text "0" for the number 0, nothing for undefined
popupLine(church) ==
    IF truthy(church.nextMassTime)
    THEN NextMassTodayLabel \o formatMinutes(CHOOSE t \in church.nextMassTime : TRUE)
    ELSE IF church.nextMassTime = {0} THEN <<"0">>
    ELSE <<>>

(***************************************************************************)
(* Properties of the decoration of a batch and of the App                  *)
(***************************************************************************)
\* the churches decorated so far in the batch under way
DecoratedInBatch == IF batch = idle THEN <<>> ELSE withoutNulls(batch.out)

\* C8: every venue of one batch is resolved against the same reference
\* instant, so within a batch the result of a venue is a function of its own
\* schedule entries: two venues with the same schedule have the same
\* nextMassTime, whatever the order of decoration and the clock do.
C8_SameInstantInBatch ==
    \A cs \in {DecoratedInBatch, churches} :
        \A i \in 1..Len(cs), j \in 1..Len(cs) :
            cs[i].massSchedule = cs[j].massSchedule
                => cs[i].nextMassTime = cs[j].nextMassTime

\* what the render shows of the error: the error-state paragraph exists only
\* in the placeholder drawn while there is no mapCenter and no loading
ErrorShown == mapCenter = "null" /\ ~loading /\ error # "null"

\* no request is outstanding and no response is being processed
Quiescent == inflight = {} /\ batch = idle

\* C9: a network failure of the venue fetch or of the geocoding request is
\* reported to the caller as a failure (not as a normal empty or not-found
\* result), and the App ends in a state in which the error is shown.
C9_FailureReportedAndShown ==
    (handled.net = "error" /\ Quiescent) =>
        /\ handled.reported = "throw"
        /\ ErrorShown

\* C10: decoration of a venue never fails, and a venue whose key is not a
\* key of the schedule table gets no massSchedule and no nextMassTime.
C10_DecorationNeverFails ==
    /\ ~(handled.kind = "fetch" /\ handled.net = "ok" /\ handled.reported = "throw")
    /\ \A cs \in {DecoratedInBatch, churches} :
          \A i \in 1..Len(cs) :
              normalize(cs[i].name) \notin DOMAIN hkMassSchedules
                  => /\ cs[i].massSchedule = noSchedule
                     /\ cs[i].nextMassTime = undefined

\* the lists a render may draw: the venue list sorted by either option
RenderedLists == {sortedChurches(churches, o) : o \in SortOptions}

\* the key of every name a venue may carry
ClaimKey == [n \in {nameOf(e) : e \in Elements} |-> normalize(n)]

\* C12: no operation changes the schedule table or its entries: after any
\* sequence of searches the table equals its initial value, and the
\* massSchedule of a venue is the entry of the table for its key, verbatim.
C12_TableUntouched ==
    /\ table = hkMassSchedules
    /\ \A cs \in {DecoratedInBatch, churches} \cup RenderedLists :
          \A i \in 1..Len(cs) :
              cs[i].massSchedule.kind = "schedule"
                  => /\ ClaimKey[cs[i].name] \in DOMAIN hkMassSchedules
                     /\ cs[i].massSchedule = hkMassSchedules[ClaimKey[cs[i].name]]

\* a search has been answered with a venue that carries a schedule of more
\* than one entry
C12_Witness ==
    /\ Quiescent
    /\ searchResultName # "null"
    /\ churchesCenter = searchResultName
    /\ \E i \in 1..Len(churches) :
          /\ churches[i].massSchedule.kind = "schedule"
          /\ Len(churches[i].massSchedule.schedule) > 1

\* C14: once every outstanding request has completed, the venue list shown
\* is the result fetched for the current mapCenter; the response of an
\* earlier fetch never replaces the list of a later request.
C14_ListIsForCurrentCenter ==
    (Quiescent /\ mapCenter # "null" /\ error = "null")
        => churchesCenter = mapCenter

\* C15: the loading flag is true exactly while a geolocation, geocoding or
\* venue request is outstanding.
C15_LoadingIffOutstanding ==
    mounted => (loading <=> ~Quiescent)

\* C16: a venue whose nextMassTime is present, 0 included, shows its
\* next-mass time in the list item and in the popup; the fallback is used
\* only when nextMassTime is absent.
C16_NextMassShown ==
    \A cs \in RenderedLists :
        \A i \in 1..Len(cs) :
            cs[i].nextMassTime # undefined
                => /\ matchesAt(listItemLine(cs[i]), 1, NextMassLabel)
                   /\ matchesAt(popupLine(cs[i]), 1, NextMassTodayLabel)

====
